---- MODULE Spec2Model ----
(***************************************************************************)
(* Model of msgparse: the LRU link cache (msgparse/cache.py), the link     *)
(* resolver _format_link and the orchestrator parse_message                *)
(* (msgparse/parser.py), with the helpers of msgparse/utils.py they use.   *)
(*                                                                         *)
(* The specifications share the cache operators:                           *)
(*   SpecCache    the LRUCache driven directly through get / set / clear,  *)
(*                for every capacity from 0 to MaxCap;                     *)
(*   Spec         parse_message invocations running on one event loop,     *)
(*                with their resolutions sharing the module-level _cache;  *)
(*   SpecLive     Spec with the fairness of the event loop;                *)
(*   SpecExtract  parse_message on texts without urls and on contents that *)
(*                are not a str, for the extraction of mentions and        *)
(*                emoticons.                                               *)
(*                                                                         *)
(* The event loop is single threaded: a step of a coroutine, from one      *)
(* suspension to the next, is one action.  Only HTTP.get runs elsewhere,   *)
(* in an executor thread, and it does not touch the cache.  The loop runs  *)
(* callbacks in the order they were scheduled, so the first steps of the   *)
(* futures of an invocation run in creation order and before any of their  *)
(* fetches is delivered.  Time is abstracted: the timeout of the wait may  *)
(* fire at any moment after that.                                          *)
(***************************************************************************)
EXTENDS Naturals, Integers, Sequences, FiniteSets, TLC

(***************************************************************************)
(* Bounds of the model.                                                    *)
(***************************************************************************)
\* largest capacity an LRUCache is constructed with in the model
MaxCap == 2
\* capacity of the module-level _cache of the parser, scaled down from the
\* default of 128 so that two urls overflow it
ParserCap == 1
\* invocations of parse_message that may be in flight on the loop
NumInvocations == 2
\* most URL tokens matched in one message
MaxTokens == 2
\* most URL tokens matched in the messages of all invocations together
MaxTotal == 2
\* longest text written freely over Alphabet (SpecExtract)
MaxLen == 3
\* most pieces a text is put together from (SpecExtract)
MaxPieces == 3

(***************************************************************************)
(* Values.                                                                 *)
(***************************************************************************)
\* Python's None: the absent result of a resolution, the miss of a get
None == [none |-> TRUE]

\* the dict {Link.url: url, Link.title: title} built by _format_link
MkLink(u, t) == [url |-> u, title |-> t]

\* keys and values the cache is driven with directly (SpecCache)
CacheKeys == {"k1", "k2", "k3"}
CacheValues == {MkLink("k1", "v1"), MkLink("k1", "v2")}

VARIABLES
    max_size,   \* LRUCache.max_size
    queue,      \* LRUCache.queue: the OrderedDict, oldest entry first,
                \* as a sequence of [key, value] items
    op,         \* the last call made on the cache through its API
                \* (SpecCache): [name, key, value, ret]
    recency,    \* history: every key used so far (get-hit or set), each
                \* once, in the order of its most recent use
    max_urls,   \* the max_urls argument the server passes to parse_message
    content,    \* per invocation: the content argument of parse_message
    found,      \* per invocation: the matches of Pattern.mention and of
                \* Pattern.emoticon in its content
    urls,       \* per invocation: the matches of Pattern.url in its content
    ppc,        \* per invocation: where parse_message is
    fs,         \* per invocation: the futures of its _format_link coroutines
    done,       \* per invocation: the done set asyncio.wait returned
    pending,    \* per invocation: the pending set asyncio.wait returned
    links,      \* per invocation: the links list
    response,   \* per invocation: the dict handed to Response.serialize
    doneOrder,  \* history, per invocation: its futures in completion order
    linkTask,   \* history, per invocation: the future behind each link
    evicted     \* history: the keys evicted from _cache and not stored since

parserVars == <<max_urls, content, found, urls, ppc, fs, done, pending, links, response,
                doneOrder, linkTask, evicted>>

vars == <<max_size, queue, op, recency, max_urls, content, found, urls, ppc, fs, done, pending,
          links, response, doneOrder, linkTask, evicted>>

(***************************************************************************)
(* OrderedDict, as LRUCache uses it.                                       *)
(***************************************************************************)
Keys(q) == {q[i].key : i \in 1..Len(q)}

\* key in self.queue
Has(q, k) == \E i \in 1..Len(q) : q[i].key = k

IndexOf(q, k) == CHOOSE i \in 1..Len(q) : q[i].key = k

\* self.queue[key], for a key that is present
ValueOf(q, k) == q[IndexOf(q, k)].value

\* self.queue.pop(key, _MISSING): the dict without the key
Pop(q, k) == SelectSeq(q, LAMBDA e : e.key # k)

\* self.queue.move_to_end(key), for a key that is present
MoveToEnd(q, k) == Append(Pop(q, k), [key |-> k, value |-> ValueOf(q, k)])

\* self.queue[key] = value on a dict: a new key goes last, a present key
\* keeps its place
SetItem(q, k, v) ==
    IF Has(q, k)
    THEN [i \in 1..Len(q) |-> IF q[i].key = k THEN [key |-> k, value |-> v] ELSE q[i]]
    ELSE Append(q, [key |-> k, value |-> v])

\* a plausible slip: the loop stops one entry early
EvictOffByOne(q, cap) == IF Len(q) > cap + 1 THEN Tail(q) ELSE q

\* while len(self.queue) > self.max_size: self.queue.popitem(last=False)
RECURSIVE Evict(_, _)
Evict(q, cap) == IF Len(q) > cap THEN Evict(Tail(q), cap) ELSE q

(***************************************************************************)
(* LRUCache.get, LRUCache.set, LRUCache.clear as functions of the queue.   *)
(***************************************************************************)
\* a plausible slip: the probe never finds the entry
GetResultAlwaysMiss(q, k) == None

\* value returned by get: the entry, or None on a miss
GetResult(q, k) == IF Has(q, k) THEN ValueOf(q, k) ELSE None

\* a plausible slip: a hit returns the value without move_to_end
GetQueueNoPromote(q, k) == q

\* a plausible slip: a miss leaves a placeholder entry behind
GetQueueInsertOnMiss(q, k) ==
    IF Has(q, k) THEN MoveToEnd(q, k) ELSE Append(q, [key |-> k, value |-> None])

\* queue after get: a hit moves the key to the end
GetQueue(q, k) == IF Has(q, k) THEN MoveToEnd(q, k) ELSE q

\* a plausible slip: a present key keeps its old value and place
SetQueueKeepOld(q, k, v, cap) ==
    IF Has(q, k) THEN q ELSE Evict(Append(q, [key |-> k, value |-> v]), cap)

\* queue after set
SetQueue(q, k, v, cap) == Evict(SetItem(Pop(q, k), k, v), cap)

\* queue after clear
ClearQueue == << >>

\* history of uses after key k was used
Touch(r, k) == Append(SelectSeq(r, LAMBDA x : x # k), k)

(***************************************************************************)
(* SpecCache: the cache driven through its API.                            *)
(***************************************************************************)
NoOp == [name |-> "init", key |-> "", value |-> None, ret |-> None, evicted |-> {}]

InitCache ==
    /\ max_size \in 0..MaxCap
    /\ queue = << >>
    /\ op = NoOp
    /\ recency = << >>
    /\ max_urls = None
    /\ content = << >>
    /\ found = << >>
    /\ urls = << >>
    /\ ppc = << >>
    /\ fs = << >>
    /\ done = << >>
    /\ pending = << >>
    /\ links = << >>
    /\ response = << >>
    /\ doneOrder = << >>
    /\ linkTask = << >>
    /\ evicted = {}

Get(k) ==
    /\ queue' = GetQueue(queue, k)
    /\ op' = [name |-> "get", key |-> k, value |-> None,
              ret |-> GetResult(queue, k), evicted |-> {}]
    /\ recency' = IF Has(queue, k) THEN Touch(recency, k) ELSE recency
    /\ UNCHANGED <<max_size, parserVars>>

Set(k, v) ==
    /\ queue' = SetQueue(queue, k, v, max_size)
    /\ op' = [name |-> "set", key |-> k, value |-> v, ret |-> None,
              evicted |-> (Keys(queue) \cup {k}) \ Keys(SetQueue(queue, k, v, max_size))]
    /\ recency' = Touch(recency, k)
    /\ UNCHANGED <<max_size, parserVars>>

Clear ==
    /\ queue' = ClearQueue
    /\ op' = [name |-> "clear", key |-> "", value |-> None, ret |-> None,
              evicted |-> {}]
    /\ UNCHANGED <<max_size, recency, parserVars>>

NextCache ==
    \/ \E k \in CacheKeys : Get(k)
    \/ \E k \in CacheKeys, v \in CacheValues : Set(k, v)
    \/ Clear

SpecCache == InitCache /\ [][NextCache]_vars

(***************************************************************************)
(* Claims about the cache.                                                 *)
(***************************************************************************)
\* position of key k in the history of uses (0 when never used)
Pos(r, k) == IF \E i \in 1..Len(r) : r[i] = k
             THEN CHOOSE i \in 1..Len(r) : r[i] = k ELSE 0

\* C1: after any sequence of get, set and clear the number of entries never
\* exceeds max_size, and max_size never changes after construction.
C1_CapacityBound ==
    /\ [](Len(queue) <= max_size)
    /\ [][max_size' = max_size]_max_size

\* C1 witness: a set on a full cache has just evicted an entry
C1_Witness ==
    /\ op.name = "set" /\ op.evicted # {}
    /\ max_size = MaxCap /\ Len(queue) = max_size

\* C2: a set that overflows the cache evicts exactly the least recently used
\* entries (use = get-hit or set): every evicted key was used less recently
\* than every key that remains, nothing is evicted below capacity, and a set
\* on a present key replaces its value without changing the entry count.
C2_EvictsLeastRecentlyUsed ==
    /\ [](op.name = "set" =>
            /\ \A e \in op.evicted : \A r \in Keys(queue) :
                   Pos(recency, e) < Pos(recency, r)
            /\ (op.evicted # {} => Len(queue) = max_size))
    /\ [][(op'.name = "set" /\ Has(queue, op'.key)) =>
            /\ Len(queue') = Len(queue)
            /\ Keys(queue') = Keys(queue)
            /\ ValueOf(queue', op'.key) = op'.value]_vars

\* C2 witness: a set evicted a key that a get-hit had not refreshed, while
\* the key inserted before it, refreshed by a get-hit, stays
C2_Witness ==
    /\ op.name = "set" /\ op.evicted # {} /\ Len(queue) = 2
    /\ \E e \in op.evicted :
          /\ Pos(recency, e) > 0
          /\ Pos(recency, e) < Pos(recency, queue[1].key)

\* C3 as stated: for every cache state, immediately after set(k, v) a
\* get(k) returns v and k is the most recently used entry.
C3_RoundTripAnyCapacity ==
    [][(op.name = "set" /\ op'.name = "get" /\ op'.key = op.key) =>
          /\ op'.ret = op.value
          /\ Len(queue') > 0
          /\ queue'[Len(queue')].key = op.key]_vars

\* C3 amended: for a cache of capacity at least 1, immediately after
\* set(k, v) a get(k) returns v and k is the most recently used entry.
C3_RoundTrip ==
    [][(max_size >= 1 /\ op.name = "set" /\ op'.name = "get" /\ op'.key = op.key) =>
          /\ op'.ret = op.value
          /\ Len(queue') > 0
          /\ queue'[Len(queue')].key = op.key]_vars

\* C3 witness: a get has returned the value that replaced an older one
C3_Witness ==
    /\ op.name = "get" /\ op.ret = MkLink("k1", "v2")
    /\ Len(queue) = 2 /\ queue[2].key = op.key

\* C4: a get that misses leaves the cache unchanged: the same entries, the
\* same values, the same recency order.
C4_MissLeavesCacheUnchanged ==
    [][(op'.name = "get" /\ ~Has(queue, op'.key)) =>
          (queue' = queue /\ max_size' = max_size)]_vars

\* C4 witness: a get has missed on a cache that holds other entries
C4_Witness ==
    /\ op.name = "get" /\ op.ret = None /\ ~Has(queue, op.key)
    /\ Len(queue) = 2

(***************************************************************************)
(* Helpers of msgparse/utils.py.                                           *)
(***************************************************************************)
Min(a, b) == IF a <= b THEN a ELSE b

\* unique(iterable): drops every element already seen, keeps the order
RECURSIVE UniqueFrom(_, _)
UniqueFrom(s, seen) ==
    IF s = << >> THEN << >>
    ELSE IF Head(s) \in seen THEN UniqueFrom(Tail(s), seen)
    ELSE <<Head(s)>> \o UniqueFrom(Tail(s), seen \cup {Head(s)})

\* a plausible slip: nothing is dropped
uniqueKeepsAll(s) == s

unique(s) == UniqueFrom(s, {})

\* first(iterable, or_): next(iterable, or_)
first(s, or_) == IF s = << >> THEN or_ ELSE Head(s)

\* Pattern.http_prefix.search(url) is not None, for ^http[s]?://
HasHttpPrefix(u) ==
    \/ Len(u) >= 7 /\ SubSeq(u, 1, 7) = "http://"
    \/ Len(u) >= 8 /\ SubSeq(u, 1, 8) = "https://"

\* lower case of the letters the content types of the model are written in
LowerChar(c) ==
    CASE c = "T" -> "t" [] c = "E" -> "e" [] c = "X" -> "x" [] c = "H" -> "h"
      [] c = "M" -> "m" [] c = "L" -> "l" [] OTHER -> c

RECURSIVE Lower(_)
Lower(str) ==
    IF Len(str) = 0 THEN ""
    ELSE LowerChar(SubSeq(str, 1, 1)) \o Lower(SubSeq(str, 2, Len(str)))

\* Pattern.content_html.search(content_type) is not None, for text/html
\* with re.I
ContentHtml(ct) ==
    \E i \in 1..Len(ct) :
        i + 8 <= Len(ct) /\ Lower(SubSeq(ct, i, i + 8)) = "text/html"

IsWs(c) == c \in {" ", "\t", "\n"}

\* length of the run of whitespace str starts with
RECURSIVE WsRun(_)
WsRun(str) ==
    IF Len(str) > 0 /\ IsWs(SubSeq(str, 1, 1))
    THEN 1 + WsRun(SubSeq(str, 2, Len(str))) ELSE 0

\* Pattern.multi_ws.sub(' ', title), for \s\s+
RECURSIVE CollapseWs(_)
CollapseWs(str) ==
    IF Len(str) = 0 THEN ""
    ELSE IF WsRun(str) >= 2
         THEN " " \o CollapseWs(SubSeq(str, WsRun(str) + 1, Len(str)))
         ELSE SubSeq(str, 1, 1) \o CollapseWs(SubSeq(str, 2, Len(str)))

\* the character at position p of a str
Char(str, p) == SubSeq(str, p, p)

Letters ==
    {"a", "b", "c", "d", "e", "f", "g", "h", "i", "j", "k", "l", "m",
     "n", "o", "p", "q", "r", "s", "t", "u", "v", "w", "x", "y", "z",
     "A", "B", "C", "D", "E", "F", "G", "H", "I", "J", "K", "L", "M",
     "N", "O", "P", "Q", "R", "S", "T", "U", "V", "W", "X", "Y", "Z"}

Digits == {"0", "1", "2", "3", "4", "5", "6", "7", "8", "9"}

\* [a-zA-Z0-9]
IsAlnum(c) == c \in Letters \cup Digits

\* a plausible slip: the underscore is left out of the word characters
IsWordNoUnderscore(c) == IsAlnum(c)

\* [\w], for the characters of the model
IsWord(c) == IsAlnum(c) \/ c = "_"

\* length of the run of word characters that starts at position p
RECURSIVE WordRun(_, _)
WordRun(str, p) ==
    IF p <= Len(str) /\ IsWord(Char(str, p)) THEN 1 + WordRun(str, p + 1) ELSE 0

\* length of the run of [a-zA-Z0-9] that starts at position p
RECURSIVE AlnumRun(_, _)
AlnumRun(str, p) ==
    IF p <= Len(str) /\ IsAlnum(Char(str, p)) THEN 1 + AlnumRun(str, p + 1) ELSE 0

\* a plausible slip: search in place of finditer, the first match only
MentionsFirstOnly(str, p) ==
    LET ps == {q \in p..Len(str) :
                  q > 1 /\ Char(str, q - 1) = "@" /\ WordRun(str, q) >= 1}
        q1 == CHOOSE q \in ps : \A r \in ps : q <= r
    IN  IF ps = {} THEN << >> ELSE <<SubSeq(str, q1, q1 + WordRun(str, q1) - 1)>>

\* Pattern.mention.finditer(str) from position p on, for (?<=[@])[\w]+ :
\* a match starts where the character before is '@' and takes the whole run
\* of word characters; the scan goes on behind the match
RECURSIVE MentionsFrom(_, _)
MentionsFrom(str, p) ==
    IF p > Len(str) THEN << >>
    ELSE IF p > 1 /\ Char(str, p - 1) = "@" /\ WordRun(str, p) >= 1
         THEN <<SubSeq(str, p, p + WordRun(str, p) - 1)>>
                \o MentionsFrom(str, p + WordRun(str, p))
         ELSE MentionsFrom(str, p + 1)

\* the {1,15} of Pattern.emoticon
EmoticonMax == 15

\* a plausible slip: the repetition reads {1,16}
EmoticonLenOneMore(str, p) ==
    LET ks == {k \in 1..Min(AlnumRun(str, p), EmoticonMax + 1) :
                  p + k <= Len(str) /\ Char(str, p + k) = ")"}
    IN  IF ks = {} THEN 0 ELSE CHOOSE k \in ks : \A m \in ks : m <= k

\* length of the match of [a-zA-Z0-9]{1,15}(?=[)]) at position p, 0 for no
\* match: the repetition is greedy and gives characters back until the
\* lookahead finds ')'
EmoticonLen(str, p) ==
    LET ks == {k \in 1..Min(AlnumRun(str, p), EmoticonMax) :
                  p + k <= Len(str) /\ Char(str, p + k) = ")"}
    IN  IF ks = {} THEN 0 ELSE CHOOSE k \in ks : \A m \in ks : m <= k

\* Pattern.emoticon.finditer(str) from position p on, for
\* (?<=[(])[a-zA-Z0-9]{1,15}(?=[)])
RECURSIVE EmoticonsFrom(_, _)
EmoticonsFrom(str, p) ==
    IF p > Len(str) THEN << >>
    ELSE IF p > 1 /\ Char(str, p - 1) = "(" /\ EmoticonLen(str, p) >= 1
         THEN <<SubSeq(str, p, p + EmoticonLen(str, p) - 1)>>
                \o EmoticonsFrom(str, p + EmoticonLen(str, p))
         ELSE EmoticonsFrom(str, p + 1)

\* HTTP.ok
HTTP_ok == 200

(***************************************************************************)
(* The network and the documents it serves.                                *)
(***************************************************************************)
\* the text of an element that has one
Str(t) == [str |-> t]

\* in the elements of a body: the place where lxml.etree.iterparse raises
\* in place of yielding an element (XMLSyntaxError, as for an empty body)
WalkError == [tag |-> "", text |-> Str("XMLSyntaxError")]

\* what HTTP.get may return for a url: status, Content-Type header ('' when
\* the header is missing) and the elements HTML.iter yields for the body
HttpResponses == {
    [status_code |-> 200, content_type |-> "text/html", content |-> <<WalkError>>],
    [status_code |-> 200, content_type |-> "text/html; charset=utf-8",
     content |-> <<[tag |-> "title", text |-> Str("Hi  there")],
                   [tag |-> "title", text |-> Str("second")]>>],
    [status_code |-> 200, content_type |-> "TEXT/HTML",
     content |-> <<[tag |-> "p", text |-> Str("no title")]>>],
    [status_code |-> 200, content_type |-> "text/html",
     content |-> <<[tag |-> "title", text |-> None]>>],
    [status_code |-> 404, content_type |-> "text/html",
     content |-> <<[tag |-> "title", text |-> Str("Not Found")]>>],
    [status_code |-> 200, content_type |-> "image/png", content |-> << >>],
    [status_code |-> 200, content_type |-> "", content |-> << >>] }

(***************************************************************************)
(* _format_link, as functions of the url and of the response.              *)
(***************************************************************************)
\* a plausible slip: the token is used as written
NormalizeNever(url) == url

\* the url after the prefix check
Normalize(url) == IF HasHttpPrefix(url) THEN url ELSE "http://" \o url

\* a plausible slip: the short circuit looks at the status only
ShortCircuitStatusOnly(resp) == resp.status_code # HTTP_ok

\* the short circuit: the content type is not html or the status is not ok
ShortCircuit(resp) ==
    ~ContentHtml(resp.content_type) \/ resp.status_code # HTTP_ok

\* _is_title = Tag.is_('title')
is_title(elem) == elem.tag = "title"

\* the generator over HTML.iter is consumed up to the first title only: it
\* raises when the walk fails before a title was found
WalkRaises(resp) ==
    \E k \in 1..Len(resp.content) :
        /\ resp.content[k] = WalkError
        /\ \A m \in 1..(k - 1) : ~is_title(resp.content[m])

\* first(tag.text for tag in tags if _is_title(tag)), then the url when None
TitleOf(resp, url) ==
    LET texts == [k \in 1..Len(SelectSeq(resp.content, is_title)) |->
                     SelectSeq(resp.content, is_title)[k].text]
        title == first(texts, None)
    IN  IF title = None THEN url ELSE title.str

\* the dict the coroutine returns for a response
LinkFor(resp, url) ==
    IF ShortCircuit(resp)
    THEN MkLink(url, url)
    ELSE MkLink(url, CollapseWs(TitleOf(resp, url)))

\* a plausible slip: every result is stored before it is returned
StoresAlways(resp) == TRUE

\* whether the coroutine reaches _cache.set: only past the short circuit
\* and the walk
Stores(resp) == ~ShortCircuit(resp) /\ ~WalkRaises(resp)

(***************************************************************************)
(* parse_message and its futures.                                          *)
(***************************************************************************)
\* the tokens Pattern.url matches in the messages of the model: written
\* one after the other with a space between, they are the matches of the
\* pattern in that text, each whole.  The third carries a mention and an
\* emoticon
TokenSeq == <<"a.io", "http://a.io", "https://b.io/@bob(hi)">>

UrlTokens == {TokenSeq[k] : k \in 1..Len(TokenSeq)}

RECURSIVE SeqsUpTo(_, _)
SeqsUpTo(S, n) ==
    IF n = 0 THEN {<< >>}
    ELSE SeqsUpTo(S, n - 1) \cup
         {Append(q, x) : q \in {r \in SeqsUpTo(S, n - 1) : Len(r) = n - 1}, x \in S}

\* the sequences of matches the messages of the model give
Messages == SeqsUpTo(UrlTokens, MaxTokens)

Invocations == 1..NumInvocations

Limit(n) == [int |-> n]

\* a content argument that is a str, and one that is not
PyStr(t) == [type |-> "str", value |-> t]
PyBytes(t) == [type |-> "bytes", value |-> t]

\* the text whose url matches are the tokens: the tokens, a space between
RECURSIVE Join(_)
Join(tokens) ==
    IF tokens = << >> THEN ""
    ELSE IF Len(tokens) = 1 THEN tokens[1]
    ELSE tokens[1] \o " " \o Join(Tail(tokens))

\* an exception leaving parse_message, where its response would be
Raised(e) == [exception |-> e]

\* a plausible slip: the urls are not passed through unique
LaunchedNoDedupe(us, mu) ==
    IF mu = None THEN us ELSE SubSeq(us, 1, Min(mu.int, Len(us)))

\* a plausible slip: the loop breaks one url late, at count > max_urls
LaunchedOffByOne(us, mu) ==
    IF mu = None THEN unique(us)
    ELSE SubSeq(unique(us), 1, Min(mu.int + 1, Len(unique(us))))

\* the urls a coroutine is created for: the loop over enumerate(unique(urls))
\* breaks at the first count >= max_urls
Launched(us, mu) ==
    IF mu = None THEN unique(us)
    ELSE SubSeq(unique(us), 1, Min(mu.int, Len(unique(us))))

\* asyncio.ensure_future(coro): a future whose coroutine has not run yet
\* state, result, exception: the future; thread: the executor thread running HTTP.get;
\* outcome, wrote, retry: history of what the coroutine did
NewTask(url) ==
    [url |-> url, state |-> "Pending", result |-> None, exception |-> None,
     thread |-> "none", outcome |-> "none", wrote |-> FALSE, retry |-> FALSE]

\* a plausible slip: the pending futures are left running
CancelForgotten(task) == task

\* f.cancel() on a future that is not done: CancelledError is thrown into
\* the coroutine at its yield from, before its only _cache.set.  Where
\* CancelledError is an Exception the except clause of the fetch catches it
\* and the coroutine returns None; either way it runs no further
Cancel(task) == [task EXCEPT !.state = "Cancelled"]

\* a plausible slip: every future is cancelled, done or not
ToCancelAll(d, p) == d \cup p

\* for f in pending: f.cancel()
ToCancel(d, p) == p

\* a plausible slip: the filter on None is left out
LinkableAlways(task) == TRUE

\* f.result() is not None
Linkable(task) == task.result # None

\* a plausible slip: the empty lists are kept
filterdictKeepAll(d) == d

\* filterdict(d): the items whose value is truthy
filterdict(d) == [k \in {x \in DOMAIN d : d[x] # << >>} |-> d[k]]

\* Pattern.mention.finditer(content) and Pattern.emoticon.finditer(content)
Matches(c) ==
    [mentions |-> MentionsFrom(c.value, 1), emoticons |-> EmoticonsFrom(c.value, 1)]

\* the generators over the matches of Pattern.mention and Pattern.emoticon
mentions(i) == found[i].mentions
emoticons(i) == found[i].emoticons

\* specials, filtered
Specials(i, lks) ==
    filterdict([k \in {"mentions", "emoticons", "links"} |->
                  CASE k = "mentions" -> unique(mentions(i))
                    [] k = "emoticons" -> unique(emoticons(i))
                    [] k = "links" -> lks])

\* the orders a set of futures can be iterated in
Orders(S) ==
    {o \in [1..Cardinality(S) -> S] : \A a, b \in 1..Cardinality(S) : a # b => o[a] # o[b]}

RECURSIVE TotalLen(_, _)
TotalLen(m, n) == IF n = 0 THEN 0 ELSE Len(m[n]) + TotalLen(m, n - 1)

\* a number for each message, to list the messages of the invocations in
\* one order: the invocations are interchangeable
RECURSIVE Code(_)
Code(m) ==
    IF m = << >> THEN 0
    ELSE (CHOOSE k \in 1..Len(TokenSeq) : TokenSeq[k] = Head(m))
           + (Len(TokenSeq) + 1) * Code(Tail(m))

Init ==
    /\ max_size = ParserCap
    /\ queue = << >>
    /\ op = NoOp
    /\ recency = << >>
    /\ max_urls \in {None} \cup {Limit(n) : n \in 0..(MaxTokens - 1)}
    /\ urls \in {m \in [Invocations -> Messages] :
                    /\ TotalLen(m, NumInvocations) <= MaxTotal
                    /\ \A i \in 1..(NumInvocations - 1) : Code(m[i]) >= Code(m[i + 1])}
    /\ content = [i \in Invocations |-> PyStr(Join(urls[i]))]
    /\ found = [i \in Invocations |-> Matches(content[i])]
    /\ ppc = [i \in Invocations |-> "start"]
    /\ fs = [i \in Invocations |-> << >>]
    /\ done = [i \in Invocations |-> {}]
    /\ pending = [i \in Invocations |-> {}]
    /\ links = [i \in Invocations |-> << >>]
    /\ response = [i \in Invocations |-> None]
    /\ doneOrder = [i \in Invocations |-> << >>]
    /\ linkTask = [i \in Invocations |-> << >>]
    /\ evicted = {}

\* parse_message up to its only suspension, the wait: a content that is
\* not a str raises TypeError; else the futures are created, and with none
\* to wait for it runs to its return
ParseStart(i) ==
    /\ ppc[i] = "start"
    /\ IF content[i].type # "str"
       THEN /\ ppc' = [ppc EXCEPT ![i] = "raised"]
            /\ response' = [response EXCEPT ![i] = Raised("TypeError")]
            /\ UNCHANGED fs
       ELSE LET us == Launched(urls[i], max_urls) IN
            /\ fs' = [fs EXCEPT ![i] = [j \in 1..Len(us) |-> NewTask(us[j])]]
            /\ IF Len(us) = 0
               THEN /\ ppc' = [ppc EXCEPT ![i] = "returned"]
                    /\ response' = [response EXCEPT ![i] = Specials(i, << >>)]
               ELSE /\ ppc' = [ppc EXCEPT ![i] = "waiting"]
                    /\ UNCHANGED response
    /\ UNCHANGED <<max_size, queue, op, recency, max_urls, content,
                   found, urls, done, pending,
                   links, doneOrder, linkTask, evicted>>

\* a resolution of the url has already returned None after a failed fetch
FailedBefore(url) ==
    \E i \in Invocations : \E j \in 1..Len(fs[i]) :
        Normalize(fs[i][j].url) = url /\ fs[i][j].outcome = "failed"

\* first step of a _format_link coroutine, up to the fetch handed to the
\* executor: the loop runs the futures of an invocation in creation order
StartResolution(i, j) ==
    /\ ppc[i] = "waiting"
    /\ j \in 1..Len(fs[i])
    /\ fs[i][j].state = "Pending"
    /\ \A k \in 1..(j - 1) : fs[i][k].state # "Pending"
    /\ LET url == Normalize(fs[i][j].url)
           entry == GetResult(queue, url)
       IN  /\ queue' = GetQueue(queue, url)
           /\ IF entry # None
              THEN /\ fs' = [fs EXCEPT ![i][j].state = "Returned",
                                       ![i][j].result = entry,
                                       ![i][j].outcome = "hit",
                                       ![i][j].retry = FailedBefore(url)]
                   /\ doneOrder' = [doneOrder EXCEPT ![i] = Append(@, j)]
              ELSE /\ fs' = [fs EXCEPT ![i][j].state = "Fetching",
                                       ![i][j].thread = "running",
                                       ![i][j].retry = FailedBefore(url)]
                   /\ UNCHANGED doneOrder
    /\ UNCHANGED <<max_size, op, recency, max_urls, content,
                   found, urls, ppc, done, pending,
                   links, response, linkTask, evicted>>

\* a plausible slip: the failure is stored as a negative result
FetchRaisesCaching(i, j) ==
    /\ j \in 1..Len(fs[i])
    /\ fs[i][j].state = "Fetching"
    /\ \A k \in 1..Len(fs[i]) : fs[i][k].state # "Pending"
    /\ fs' = [fs EXCEPT ![i][j].state = "Returned",
                        ![i][j].result = None,
                        ![i][j].thread = "finished",
                        ![i][j].outcome = "failed"]
    /\ queue' = SetQueue(queue, Normalize(fs[i][j].url), None, max_size)
    /\ doneOrder' = [doneOrder EXCEPT ![i] = Append(@, j)]
    /\ UNCHANGED <<max_size, op, recency, max_urls, content,
                   found, urls, ppc, done,
                   pending, links, response, linkTask, evicted>>

\* HTTP.get raises in the executor: the coroutine logs and returns None
FetchRaises(i, j) ==
    /\ j \in 1..Len(fs[i])
    /\ fs[i][j].state = "Fetching"
    /\ \A k \in 1..Len(fs[i]) : fs[i][k].state # "Pending"
    /\ fs' = [fs EXCEPT ![i][j].state = "Returned",
                        ![i][j].result = None,
                        ![i][j].thread = "finished",
                        ![i][j].outcome = "failed"]
    /\ doneOrder' = [doneOrder EXCEPT ![i] = Append(@, j)]
    /\ UNCHANGED <<max_size, queue, op, recency, max_urls, content,
                   found, urls, ppc, done,
                   pending, links, response, linkTask, evicted>>

\* HTTP.get returns a response: the coroutine runs to its return, or to the
\* exception of the walk, which nothing in it catches and which becomes the
\* exception of the future
FetchReturns(i, j, resp) ==
    /\ j \in 1..Len(fs[i])
    /\ fs[i][j].state = "Fetching"
    /\ \A k \in 1..Len(fs[i]) : fs[i][k].state # "Pending"
    /\ LET url == Normalize(fs[i][j].url)
           link == LinkFor(resp, url)
           raises == ~ShortCircuit(resp) /\ WalkRaises(resp)
       IN  /\ fs' = [fs EXCEPT ![i][j].state = "Returned",
                               ![i][j].result = IF raises THEN None ELSE link,
                               ![i][j].exception =
                                   IF raises THEN Raised("XMLSyntaxError") ELSE None,
                               ![i][j].thread = "finished",
                               ![i][j].outcome =
                                   IF ShortCircuit(resp) THEN "short"
                                   ELSE IF raises THEN "raised" ELSE "parsed",
                               ![i][j].wrote = Stores(resp)]
           /\ IF Stores(resp)
              THEN /\ queue' = SetQueue(queue, url, link, max_size)
                   /\ evicted' = (evicted \cup
                                   ((Keys(queue) \cup {url}) \
                                      Keys(SetQueue(queue, url, link, max_size))))
                                 \ Keys(SetQueue(queue, url, link, max_size))
              ELSE UNCHANGED <<queue, evicted>>
    /\ doneOrder' = [doneOrder EXCEPT ![i] = Append(@, j)]
    /\ UNCHANGED <<max_size, op, recency, max_urls, content,
                   found, urls, ppc, done, pending,
                   links, response, linkTask>>

\* asyncio.wait returns, every future done or the timeout over, and
\* parse_message runs to its return: links from the done set in the order
\* the set is iterated in, the pending futures cancelled, the response built.
\* f.result() raises the exception of a future that has one: it leaves
\* parse_message from the comprehension, before the pending are cancelled
WaitReturns(i) ==
    /\ ppc[i] = "waiting"
    /\ \A j \in 1..Len(fs[i]) : fs[i][j].state # "Pending"
    /\ LET d == {j \in 1..Len(fs[i]) : fs[i][j].state = "Returned"}
           p == (1..Len(fs[i])) \ d
       IN  /\ done' = [done EXCEPT ![i] = d]
           /\ pending' = [pending EXCEPT ![i] = p]
           /\ IF \E j \in d : fs[i][j].exception # None
              THEN /\ \E j \in d :
                        /\ fs[i][j].exception # None
                        /\ response' = [response EXCEPT ![i] = fs[i][j].exception]
                   /\ ppc' = [ppc EXCEPT ![i] = "raised"]
                   /\ UNCHANGED <<linkTask, links, fs>>
              ELSE /\ \E o \in Orders({j \in d : Linkable(fs[i][j])}) :
                        /\ linkTask' = [linkTask EXCEPT ![i] = o]
                        /\ links' = [links EXCEPT ![i] =
                                       [k \in 1..Len(o) |-> fs[i][o[k]].result]]
                        /\ response' = [response EXCEPT ![i] =
                                          Specials(i, [k \in 1..Len(o) |-> fs[i][o[k]].result])]
                   /\ fs' = [fs EXCEPT ![i] =
                                [j \in 1..Len(fs[i]) |->
                                    IF j \in ToCancel(d, p)
                                    THEN Cancel(fs[i][j]) ELSE fs[i][j]]]
                   /\ ppc' = [ppc EXCEPT ![i] = "returned"]
    /\ UNCHANGED <<max_size, queue, op, recency, max_urls, content,
                   found, urls, doneOrder,
                   evicted>>

\* the executor thread of a cancelled future ends, HTTP.get having returned
\* or raised: nobody awaits it any more
ThreadFinishes(i, j) ==
    /\ j \in 1..Len(fs[i])
    /\ fs[i][j].state = "Cancelled"
    /\ fs[i][j].thread = "running"
    /\ fs' = [fs EXCEPT ![i][j].thread = "finished"]
    /\ UNCHANGED <<max_size, queue, op, recency, max_urls, content,
                   found, urls, ppc, done,
                   pending, links, response, doneOrder, linkTask, evicted>>

Next ==
    \/ \E i \in Invocations : ParseStart(i)
    \/ \E i \in Invocations, j \in 1..MaxTokens : StartResolution(i, j)
    \/ \E i \in Invocations, j \in 1..MaxTokens : FetchRaises(i, j)
    \/ \E i \in Invocations, j \in 1..MaxTokens, resp \in HttpResponses :
          FetchReturns(i, j, resp)
    \/ \E i \in Invocations : WaitReturns(i)
    \/ \E i \in Invocations, j \in 1..MaxTokens : ThreadFinishes(i, j)

Spec == Init /\ [][Next]_vars

\* the steps the event loop takes by itself: a coroutine that is ready to
\* run is run, and the timer of asyncio.wait fires
LoopStep ==
    \/ \E i \in Invocations : ParseStart(i)
    \/ \E i \in Invocations, j \in 1..MaxTokens : StartResolution(i, j)
    \/ \E i \in Invocations : WaitReturns(i)

\* the loop does not stop while it has such a step to take; nothing makes a
\* fetch end
Fairness == WF_vars(LoopStep)

SpecLive == Init /\ [][Next]_vars /\ Fairness

(***************************************************************************)
(* SpecExtract: parse_message on texts without urls, for the extraction    *)
(* of mentions and emoticons.                                              *)
(***************************************************************************)
\* the characters the free texts are written in: none of them lets
\* Pattern.url match, which takes 'http' or a '.'
Alphabet == {"@", "(", ")", "a", "1", "_", "+", " "}

\* the pieces the longer texts are put together from
Pieces == {"@bob", "@al", "(hi)", "(ok)", " x "}

RECURSIVE Concat(_)
Concat(q) == IF q = << >> THEN "" ELSE Head(q) \o Concat(Tail(q))

RECURSIVE Repeat(_, _)
Repeat(c, n) == IF n = 0 THEN "" ELSE c \o Repeat(c, n - 1)

\* texts around the longest emoticon, and a text of the tests
LongTexts ==
    {"(" \o Repeat("a", n) \o ")" : n \in (EmoticonMax - 1)..(EmoticonMax + 2)}
      \cup {"(" \o Repeat("a", EmoticonMax - 1) \o "+)",
            "@" \o Repeat("a", EmoticonMax + 1) \o "-b", "@ @bob+loblaw"}

Texts ==
    {Concat(q) : q \in SeqsUpTo(Alphabet, MaxLen)}
      \cup {Concat(q) : q \in SeqsUpTo(Pieces, MaxPieces)}
      \cup LongTexts

\* content arguments that are not a str
NonStr == {PyBytes("@bob (hi)"), PyBytes("")}

\* one invocation, of any text of Texts or of a content that is not a str:
\* the content has no url
InitExtract ==
    /\ max_size = ParserCap
    /\ queue = << >>
    /\ op = NoOp
    /\ recency = << >>
    /\ max_urls = None
    /\ content \in {[i \in Invocations |-> IF i = 1 THEN c ELSE PyStr("")] :
                     c \in {PyStr(t) : t \in Texts} \cup NonStr}
    /\ found = [i \in Invocations |-> Matches(content[i])]
    /\ urls = [i \in Invocations |-> << >>]
    /\ ppc = [i \in Invocations |-> "start"]
    /\ fs = [i \in Invocations |-> << >>]
    /\ done = [i \in Invocations |-> {}]
    /\ pending = [i \in Invocations |-> {}]
    /\ links = [i \in Invocations |-> << >>]
    /\ response = [i \in Invocations |-> None]
    /\ doneOrder = [i \in Invocations |-> << >>]
    /\ linkTask = [i \in Invocations |-> << >>]
    /\ evicted = {}

NextExtract == \E i \in {1} : ParseStart(i)

SpecExtract == InitExtract /\ [][NextExtract]_vars

(***************************************************************************)
(* Claims about the resolver and the orchestrator.                         *)
(***************************************************************************)
Range(f) == {f[k] : k \in DOMAIN f}

\* the future j of invocation i takes its first step
Starts(i, j) ==
    /\ j \in 1..Len(fs[i])
    /\ fs[i][j].state = "Pending"
    /\ fs'[i][j].state # "Pending"

\* the fetch of future j of invocation i ends and the coroutine resumes
Resumes(i, j) ==
    /\ j \in 1..Len(fs[i])
    /\ fs[i][j].state = "Fetching"
    /\ fs'[i][j].state = "Returned"

\* C5: when the fetch fails the resolution returns None and writes nothing:
\* the cache is the same before and after, no entry ever holds None, the
\* resolution gives no link, and a later resolution of the url is not served
\* the failure: it fetches again, unless the cache holds a stored link.
C5_FailedFetchIsNotCached ==
    /\ [](/\ \A k \in 1..Len(queue) : queue[k].value # None
          /\ \A i \in Invocations : \A k \in 1..Len(linkTask[i]) :
                fs[i][linkTask[i][k]].outcome # "failed")
    /\ [][\A i \in Invocations : \A j \in 1..MaxTokens :
            /\ (Resumes(i, j) /\ fs'[i][j].outcome = "failed") =>
                 (fs'[i][j].result = None /\ queue' = queue)
            /\ (Starts(i, j) /\ FailedBefore(Normalize(fs[i][j].url))) =>
                 \/ fs'[i][j].state = "Fetching" /\ fs'[i][j].thread = "running"
                 \/ /\ Has(queue, Normalize(fs[i][j].url))
                    /\ fs'[i][j].result = ValueOf(queue, Normalize(fs[i][j].url))
                    /\ fs'[i][j].result # None]_vars

\* C5 witness: an invocation returned without links after its only fetch
\* failed, and a later resolution of the same url is fetching again
C5_Witness ==
    \E i, k \in Invocations :
        /\ ppc[i] = "returned" /\ Len(fs[i]) = 1 /\ fs[i][1].outcome = "failed"
        /\ links[i] = << >> /\ DOMAIN response[i] = {}
        /\ queue = << >>
        /\ Len(fs[k]) >= 1 /\ fs[k][1].retry /\ fs[k][1].state = "Fetching"
        /\ Normalize(fs[k][1].url) = Normalize(fs[i][1].url)

\* C6: when the response is not a success or not html the resolution returns
\* a link whose title is the normalized url, and that link is stored in the
\* cache under the normalized url.
C6_ShortCircuitIsCached ==
    [][\A i \in Invocations : \A j \in 1..MaxTokens :
         (Resumes(i, j) /\ fs'[i][j].outcome = "short") =>
            /\ fs'[i][j].result =
                  MkLink(Normalize(fs[i][j].url), Normalize(fs[i][j].url))
            /\ Has(queue', Normalize(fs[i][j].url))
            /\ ValueOf(queue', Normalize(fs[i][j].url)) = fs'[i][j].result]_vars

\* C7 as stated: a resolution of a url that starts after another resolution
\* of the same normalized url has returned, the url not having been evicted
\* in between, is served from the cache and does not fetch.
C7_SecondResolutionNeverFetches ==
    [][\A i \in Invocations : \A j \in 1..MaxTokens :
         (/\ Starts(i, j)
          /\ Normalize(fs[i][j].url) \notin evicted
          /\ \E i2 \in Invocations : \E j2 \in 1..Len(fs[i2]) :
                /\ fs[i2][j2].state = "Returned"
                /\ Normalize(fs[i2][j2].url) = Normalize(fs[i][j].url)) =>
            (fs'[i][j].state = "Returned" /\ fs'[i][j].thread = "none")]_vars

\* C7 amended: a resolution of a url that starts after another resolution of
\* the same normalized url has stored its link in the cache, the entry not
\* having been evicted since, does not fetch and returns the stored link.
C7_StoredLinkIsServed ==
    [][\A i \in Invocations : \A j \in 1..MaxTokens :
         (/\ Starts(i, j)
          /\ Normalize(fs[i][j].url) \notin evicted
          /\ \E i2 \in Invocations : \E j2 \in 1..Len(fs[i2]) :
                /\ fs[i2][j2].state = "Returned" /\ fs[i2][j2].wrote
                /\ Normalize(fs[i2][j2].url) = Normalize(fs[i][j].url)) =>
            /\ fs'[i][j].state = "Returned" /\ fs'[i][j].thread = "none"
            /\ Has(queue, Normalize(fs[i][j].url))
            /\ fs'[i][j].result = ValueOf(queue, Normalize(fs[i][j].url))]_vars

\* C7 witness: a resolution was served, without a fetch, the link another
\* invocation had parsed and stored
C7_Witness ==
    \E i, k \in Invocations :
        /\ i # k
        /\ Len(fs[i]) >= 1 /\ fs[i][1].wrote /\ fs[i][1].result.title = "Hi there"
        /\ Len(fs[k]) >= 1 /\ fs[k][1].outcome = "hit" /\ fs[k][1].thread = "none"
        /\ fs[k][1].result = fs[i][1].result
        /\ fs[k][1].url = "a.io" /\ fs[i][1].url = "http://a.io"

\* C8: a resolution still in flight when the wait times out is cancelled, is
\* left out of links and never writes to the cache afterwards, even when its
\* fetch completes later.
\* It does not hold where f.result() raises before the cancel loop (C14):
\* the pending futures are then left running and write when they complete.
C8_PendingNeverWrites ==
    /\ [](\A i \in Invocations : \A j \in pending[i] :
            /\ fs[i][j].state = "Cancelled"
            /\ fs[i][j].result = None
            /\ ~fs[i][j].wrote
            /\ j \notin Range(linkTask[i])
            /\ Len(links[i]) = Len(linkTask[i]))
    /\ [][\A i \in Invocations : \A j \in pending[i] :
            fs'[i][j] # fs[i][j] => queue' = queue]_vars

\* C8 witness: the fetch of a cancelled resolution completed after the
\* timeout, next to a resolution that made it into links
C8_Witness ==
    \E i \in Invocations :
        /\ ppc[i] = "returned" /\ Len(fs[i]) = 2
        /\ pending[i] = {1} /\ fs[i][1].thread = "finished"
        /\ done[i] = {2} /\ Len(links[i]) = 1
        /\ ~Has(queue, Normalize(fs[i][1].url))

\* position of future j in a sequence of futures
Place(order, j) == CHOOSE k \in 1..Len(order) : order[k] = j

C10_LinksHaveDistinctUrls ==
    \A i \in Invocations :
        ppc[i] = "returned" =>
            /\ \A a, b \in 1..Len(links[i]) :
                  a # b => links[i][a].url # links[i][b].url
            /\ \A k \in 1..Len(linkTask[i]) :
                  /\ linkTask[i][k] \in done[i]
                  /\ fs[i][linkTask[i][k]].result # None

(***************************************************************************)
(* Claims about the url limit, the response and the failures.              *)
(***************************************************************************)
\* the message of invocation i has more distinct url tokens than max_urls
OverLimit(i) ==
    max_urls # None /\ Cardinality(Range(urls[i])) > max_urls.int

\* C11 as stated: for a message with more distinct url tokens than max_urls
\* exactly max_urls links appear in the response.
C11_ExactlyMaxUrlsLinks ==
    \A i \in Invocations :
        (ppc[i] = "returned" /\ OverLimit(i)) => Len(links[i]) = max_urls.int

\* C11 amended: for a message with more distinct url tokens than max_urls
\* exactly max_urls resolutions are launched and at most max_urls links
\* appear in the response; exactly max_urls appear when every launched
\* resolution returned a link before the wait ended.
C11_AtMostMaxUrlsLinks ==
    \A i \in Invocations :
        (ppc[i] = "returned" /\ OverLimit(i)) =>
            /\ Len(fs[i]) = max_urls.int
            /\ Len(links[i]) <= max_urls.int
            /\ (\A j \in 1..Len(fs[i]) : fs[i][j].result # None) =>
                  Len(links[i]) = max_urls.int
            /\ ("links" \in DOMAIN response[i]) => response[i]["links"] = links[i]

\* C11 witness: two distinct url tokens under max_urls = 1 gave one link
C11_Witness ==
    \E i \in Invocations :
        /\ ppc[i] = "returned" /\ max_urls = Limit(1)
        /\ Cardinality(Range(urls[i])) = 2
        /\ Len(fs[i]) = 1 /\ Len(links[i]) = 1
        /\ response[i]["links"] = links[i]

\* C12: a key is present in the response exactly when its list is not
\* empty, and then holds that list; a message with no symbols, or whose
\* only urls all failed or timed out, gives a response with no keys.
C12_KeyPresentIffNonEmpty ==
    \A i \in Invocations :
        ppc[i] = "returned" =>
            /\ DOMAIN response[i] \subseteq {"mentions", "emoticons", "links"}
            /\ ("mentions" \in DOMAIN response[i]) <=> (mentions(i) # << >>)
            /\ ("emoticons" \in DOMAIN response[i]) <=> (emoticons(i) # << >>)
            /\ ("links" \in DOMAIN response[i]) <=> (links[i] # << >>)
            /\ \A k \in DOMAIN response[i] : response[i][k] # << >>
            /\ ("links" \in DOMAIN response[i]) => response[i]["links"] = links[i]
            /\ (/\ mentions(i) = << >> /\ emoticons(i) = << >>
                /\ \A j \in 1..Len(fs[i]) :
                      fs[i][j].outcome = "failed" \/ fs[i][j].state = "Cancelled") =>
                  DOMAIN response[i] = {}

\* C12 witness: the only url of a message failed, so links is left out,
\* next to a mention and an emoticon that are kept; another message, with
\* no symbols at all, gave a response with no keys
C12_Witness ==
    \E i, k \in Invocations :
        /\ ppc[i] = "returned" /\ Len(fs[i]) = 1 /\ fs[i][1].outcome = "failed"
        /\ DOMAIN response[i] = {"mentions", "emoticons"}
        /\ response[i]["mentions"] = <<"bob">> /\ response[i]["emoticons"] = <<"hi">>
        /\ ppc[k] = "returned" /\ content[k] = PyStr("") /\ DOMAIN response[k] = {}

(***************************************************************************)
(* Claims about the extraction of mentions and emoticons.                  *)
(***************************************************************************)
\* the list the response holds under a key, empty when the key is left out
ListOf(resp, k) == IF k \in DOMAIN resp THEN resp[k] ELSE << >>

\* position of the first element of a sequence equal to x
FirstAt(q, x) == CHOOSE k \in 1..Len(q) : q[k] = x /\ \A m \in 1..(k - 1) : q[m] # x

\* list holds every element of matches once, in the order of first occurrence
DistinctInOrder(list, matches) ==
    /\ \A a, b \in 1..Len(list) : a # b => list[a] # list[b]
    /\ Range(list) = Range(matches)
    /\ \A a, b \in 1..Len(list) :
          a < b => FirstAt(matches, list[a]) < FirstAt(matches, list[b])

\* C13: the mentions and emoticons lists of the response have no duplicate,
\* hold every distinct matched token and are ordered by the first occurrence
\* of each token in the text.
C13_ListsDistinctInOrder ==
    \A i \in Invocations :
        ppc[i] = "returned" =>
            /\ DistinctInOrder(ListOf(response[i], "mentions"), mentions(i))
            /\ DistinctInOrder(ListOf(response[i], "emoticons"), emoticons(i))

\* C13 witness: a mention matched twice around another one is listed once,
\* at its first place
C13_Witness ==
    /\ ppc[1] = "returned"
    /\ content[1] = PyStr("@bob@al@bob")
    /\ mentions(1) = <<"bob", "al", "bob">>
    /\ response[1]["mentions"] = <<"bob", "al">>

\* the n characters from position p are 1 to 15 alphanumerics with '(' right
\* before and ')' right behind
EnclosedRun(str, p, n) ==
    /\ n >= 1 /\ n <= 15
    /\ p > 1 /\ Char(str, p - 1) = "("
    /\ p + n <= Len(str) /\ Char(str, p + n) = ")"
    /\ \A q \in p..(p + n - 1) : Char(str, q) \in Letters \cup Digits

\* C16: the emoticons list is made of the distinct runs of 1 to 15
\* alphanumeric characters immediately enclosed by '(' and ')': '()', a run
\* of more than 15 or a run with another character in it gives none.
C16_EmoticonsAreEnclosedRuns ==
    \A i \in Invocations :
        (ppc[i] = "returned" /\ content[i].type = "str") =>
            LET str == content[i].value
                list == ListOf(response[i], "emoticons")
            IN  /\ Range(list) =
                      {SubSeq(str, p, p + n - 1) : <<p, n>> \in
                          {pn \in (1..Len(str)) \X (1..Len(str)) :
                              EnclosedRun(str, pn[1], pn[2])}}
                /\ Cardinality(Range(list)) = Len(list)

\* C16 witness: a run of 15 is an emoticon
C16_Witness ==
    /\ ppc[1] = "returned"
    /\ content[1] = PyStr("(" \o Repeat("a", 15) \o ")")
    /\ response[1]["emoticons"] = <<Repeat("a", 15)>>

\* the n characters from position p are a run of word characters, '@' right
\* before it, that cannot be made longer
MentionRun(str, p, n) ==
    /\ n >= 1
    /\ p > 1 /\ Char(str, p - 1) = "@"
    /\ p + n - 1 <= Len(str)
    /\ \A q \in p..(p + n - 1) : Char(str, q) \in Letters \cup Digits \cup {"_"}
    /\ p + n <= Len(str) => Char(str, p + n) \notin Letters \cup Digits \cup {"_"}

\* C17: the mentions are the maximal non-empty runs of word characters that
\* follow an '@', without the '@': a bare '@' or an '@' before a non-word
\* character gives none, and a mention stops at the first non-word character.
C17_MentionsAreWordRuns ==
    \A i \in Invocations :
        (ppc[i] = "returned" /\ content[i].type = "str") =>
            LET str == content[i].value
                list == ListOf(response[i], "mentions")
            IN  /\ Range(list) =
                      {SubSeq(str, p, p + n - 1) : <<p, n>> \in
                          {pn \in (1..Len(str)) \X (1..Len(str)) :
                              MentionRun(str, pn[1], pn[2])}}
                /\ Cardinality(Range(list)) = Len(list)

\* C17 witness: the mention stops at the '+', and the bare '@' before it
\* gave nothing
C17_Witness ==
    /\ ppc[1] = "returned"
    /\ content[1] = PyStr("@ @bob+loblaw")
    /\ response[1]["mentions"] = <<"bob">>

(***************************************************************************)
(* Claims about errors and termination.                                    *)
(***************************************************************************)
\* C14: no error in link resolution aborts parse_message: an invocation
\* ends with an exception only when its content is not a str, and then with
\* TypeError.
C14_OnlyTypeErrorAborts ==
    \A i \in Invocations :
        ppc[i] = "raised" =>
            (content[i].type # "str" /\ response[i] = Raised("TypeError"))

\* C15: parse_message always eventually returns a response, also when
\* fetches never complete.
C15_AlwaysReturns ==
    \A i \in Invocations : <>(ppc[i] = "returned")

(***************************************************************************)
(* Claims about the life of a resolution.                                  *)
(***************************************************************************)
\* the step ends the wait of invocation i with futures still pending: the
\* timeout is over
DeadlineStep(i) ==
    ppc[i] = "waiting" /\ ppc'[i] # "waiting" /\ pending'[i] # {}

\* the moves of the state machine as stated, for the future j of invocation i
StatedMove(i, j) ==
    \/ fs[i][j].state = "Pending" /\ fs'[i][j].state = "Fetching"
    \/ /\ fs[i][j].state = "Fetching" /\ fs'[i][j].state = "Returned"
       /\ fs'[i][j].outcome \in {"short", "parsed", "failed"}
       /\ fs'[i][j].exception = None
    \/ /\ fs[i][j].state \in {"Pending", "Fetching"}
       /\ fs'[i][j].state = "Cancelled"
       /\ DeadlineStep(i)

\* C18 as stated: every resolution goes Pending, Fetching, one of short
\* circuited, title parsed or failed, Returned; Cancelled is entered only
\* from Pending or Fetching and only at the deadline; no future leaves
\* Returned or Cancelled.
C18_StateMachine ==
    [][\A i \in Invocations :
         /\ \A j \in 1..Len(fs'[i]) : j > Len(fs[i]) => fs'[i][j].state = "Pending"
         /\ \A j \in 1..Len(fs[i]) :
               fs'[i][j].state # fs[i][j].state => StatedMove(i, j)]_vars

\* C18 amended: the stated moves, and two more: from Pending straight to
\* Returned when the cache holds the url, and from Fetching to done with an
\* exception when the walk of the markup raises.
C18_StateMachineWithHit ==
    [][\A i \in Invocations :
         /\ \A j \in 1..Len(fs'[i]) : j > Len(fs[i]) => fs'[i][j].state = "Pending"
         /\ \A j \in 1..Len(fs[i]) :
               fs'[i][j].state # fs[i][j].state =>
                  \/ StatedMove(i, j)
                  \/ /\ fs[i][j].state = "Pending" /\ fs'[i][j].state = "Returned"
                     /\ fs'[i][j].outcome = "hit"
                     /\ Has(queue, Normalize(fs[i][j].url))
                  \/ /\ fs[i][j].state = "Fetching" /\ fs'[i][j].state = "Returned"
                     /\ fs'[i][j].outcome = "raised"
                     /\ fs'[i][j].exception # None]_vars

\* C18 witness: of the two resolutions of an invocation one was cancelled at
\* the deadline, its fetch ending later, and one had returned its parsed link
C18_Witness ==
    \E i \in Invocations :
        /\ ppc[i] = "returned" /\ Len(fs[i]) = 2
        /\ fs[i][1].state = "Cancelled" /\ fs[i][1].thread = "finished"
        /\ fs[i][2].state = "Returned" /\ fs[i][2].outcome = "parsed"

(***************************************************************************)
(* Claims about concurrent resolutions of one url.                         *)
(***************************************************************************)
\* r and q are two resolutions of the same normalized url
SameUrl(r, q) ==
    /\ r # q
    /\ r[2] <= Len(fs[r[1]]) /\ q[2] <= Len(fs[q[1]])
    /\ Normalize(fs[r[1]][r[2]].url) = Normalize(fs[q[1]][q[2]].url)

\* r and q were fetching at the same time: the resolutions of one invocation
\* all take their first step before any of their fetches is delivered, so two
\* of them that missed the cache were in flight together
Concurrent(r, q) ==
    /\ r[1] = q[1]
    /\ fs[r[1]][r[2]].thread # "none" /\ fs[q[1]][q[2]].thread # "none"

\* the entries of the cache under a key
EntriesOf(q, k) == {n \in 1..Len(q) : q[n].key = k}

\* the resolution r completes and writes in this step
WritesNow(r) == Resumes(r[1], r[2]) /\ fs'[r[1]][r[2]].wrote

\* the resolution q of the url of r has completed and written before
WroteBefore(r, q) ==
    /\ SameUrl(r, q)
    /\ fs[q[1]][q[2]].state = "Returned" /\ fs[q[1]][q[2]].wrote

\* C19 as stated: when two concurrent resolutions of one normalized url have
\* both written, the cache holds exactly one entry for the url, its value is
\* the later writer's, and it equals what either resolution returned.
C19_WritesAreEquivalent ==
    [][\A r \in Invocations \X (1..MaxTokens) : WritesNow(r) =>
         \A q \in Invocations \X (1..MaxTokens) :
         (WroteBefore(r, q) /\ Concurrent(r, q)) =>
            LET url == Normalize(fs[r[1]][r[2]].url) IN
            /\ Cardinality(EntriesOf(queue', url)) = 1
            /\ ValueOf(queue', url) = fs'[r[1]][r[2]].result
            /\ ValueOf(queue', url) = fs'[q[1]][q[2]].result]_vars

\* C19 amended: when two resolutions of one normalized url have both
\* written, concurrent or not, in one invocation or in two, the cache holds
\* exactly one entry for the url and its value is what the later writer
\* returned; the earlier writer keeps what it returned, a link of the same
\* url whose title may be another.
C19_LaterWriterWins ==
    [][\A r \in Invocations \X (1..MaxTokens) : WritesNow(r) =>
         \A q \in Invocations \X (1..MaxTokens) :
         WroteBefore(r, q) =>
            LET url == Normalize(fs[r[1]][r[2]].url) IN
            /\ Cardinality(EntriesOf(queue', url)) = 1
            /\ ValueOf(queue', url) = fs'[r[1]][r[2]].result
            /\ fs'[q[1]][q[2]].result = fs[q[1]][q[2]].result
            /\ fs[q[1]][q[2]].result.url = url]_vars

\* C19 witness: the two resolutions of 'a.io http://a.io' both missed, both
\* fetched and both wrote, with different titles; the cache holds one entry
C19_Witness ==
    \E i \in Invocations :
        /\ Len(fs[i]) = 2
        /\ SameUrl(<<i, 1>>, <<i, 2>>) /\ Concurrent(<<i, 1>>, <<i, 2>>)
        /\ fs[i][1].state = "Returned" /\ fs[i][1].wrote
        /\ fs[i][2].state = "Returned" /\ fs[i][2].wrote
        /\ fs[i][1].result # fs[i][2].result
        /\ Cardinality(EntriesOf(queue, Normalize(fs[i][1].url))) = 1
        /\ ValueOf(queue, Normalize(fs[i][1].url)) \in {fs[i][1].result, fs[i][2].result}

(***************************************************************************)
(* Claims about the resolutions that are launched.                         *)
(***************************************************************************)
\* the number of distinct tokens among the first k url tokens of invocation i
DistinctUpTo(i, k) == Cardinality({urls[i][m] : m \in 1..k})

\* C20: the resolutions launched are one per url token among the first
\* min(max_urls, n) of the n distinct url tokens of the text, in the order
\* of first occurrence, tokens being compared as written, before
\* normalization: all n when max_urls is unset, none when it is 0.  So
\* neither their number nor the length of links exceeds max_urls.
C20_LaunchedAreFirstDistinct ==
    \A i \in Invocations :
        ppc[i] \in {"waiting", "returned"} =>
            LET n == DistinctUpTo(i, Len(urls[i])) IN
            /\ Len(fs[i]) = IF max_urls = None THEN n
                            ELSE IF max_urls.int <= n THEN max_urls.int ELSE n
            /\ \A j \in 1..Len(fs[i]) :
                  /\ \E k \in 1..Len(urls[i]) : urls[i][k] = fs[i][j].url
                  /\ DistinctUpTo(i, FirstAt(urls[i], fs[i][j].url)) = j
            /\ \A a, b \in 1..Len(fs[i]) : a # b => fs[i][a].url # fs[i][b].url
            /\ max_urls # None =>
                  (Len(fs[i]) <= max_urls.int /\ Len(links[i]) <= max_urls.int)

\* C20 witness: two tokens that differ as written and are one url once
\* normalized were both launched, in the order of the text
C20_Witness ==
    \E i \in Invocations :
        /\ ppc[i] = "returned" /\ max_urls = None
        /\ urls[i] = <<"http://a.io", "a.io">>
        /\ Len(fs[i]) = 2 /\ fs[i][1].url = "http://a.io" /\ fs[i][2].url = "a.io"
        /\ Normalize(fs[i][1].url) = Normalize(fs[i][2].url)

(***************************************************************************)
(* Claims about the url a resolution works under and what the cache holds. *)
(***************************************************************************)
\* the text begins with http:// or with https://
Prefixed(u) ==
    \E n \in {7, 8} :
        Len(u) >= n /\ SubSeq(u, 1, n) \in {"http://", "https://"}

\* the url the text says a token is resolved under
Prefixing(token) == IF Prefixed(token) THEN token ELSE "http://" \o token

\* C21: a url token without an http:// or https:// prefix is resolved,
\* cached and reported under the token with http:// put before it, and a
\* token with the prefix under itself: the cache is probed and written under
\* that url only, the result of the resolution and its link carry it, and so
\* every url in links and every key of the cache begins with http:// or
\* https://.
C21_ResolvedUnderPrefixedUrl ==
    /\ [](/\ \A k \in 1..Len(queue) :
                /\ Prefixed(queue[k].key)
                /\ \E i \in Invocations : \E j \in 1..Len(fs[i]) :
                      queue[k].key = Prefixing(fs[i][j].url)
          /\ \A i \in Invocations :
                /\ \A j \in 1..Len(fs[i]) :
                      fs[i][j].result # None =>
                          fs[i][j].result.url = Prefixing(fs[i][j].url)
                /\ \A k \in 1..Len(links[i]) :
                      /\ Prefixed(links[i][k].url)
                      /\ links[i][k].url = Prefixing(fs[i][linkTask[i][k]].url))
    /\ [][\A i \in Invocations : \A j \in 1..MaxTokens :
            /\ (Starts(i, j) /\ fs'[i][j].state = "Returned") =>
                  /\ Has(queue, Prefixing(fs[i][j].url))
                  /\ fs'[i][j].result = ValueOf(queue, Prefixing(fs[i][j].url))
            /\ (Resumes(i, j) /\ queue' # queue) =>
                  /\ Has(queue', Prefixing(fs[i][j].url))
                  /\ ValueOf(queue', Prefixing(fs[i][j].url)) = fs'[i][j].result
                  /\ Keys(queue') \subseteq Keys(queue) \cup {Prefixing(fs[i][j].url)}]_vars

\* C21 witness: the token a.io was resolved, is reported and is cached as
\* http://a.io, and the token http://a.io of another message, used as
\* written, was served that entry
C21_Witness ==
    \E i, k \in Invocations :
        /\ ppc[i] = "returned" /\ Len(fs[i]) = 1 /\ fs[i][1].url = "a.io"
        /\ fs[i][1].outcome = "parsed"
        /\ Len(links[i]) = 1 /\ links[i][1].url = "http://a.io"
        /\ Has(queue, "http://a.io")
        /\ ppc[k] = "returned" /\ Len(fs[k]) = 1 /\ fs[k][1].url = "http://a.io"
        /\ fs[k][1].outcome = "hit"
        /\ Len(links[k]) = 1 /\ links[k][1].url = "http://a.io"

\* C22: every entry of the shared cache holds a link whose url is the key of
\* the entry and whose title is a text, that of a page served for the url or
\* the url itself: no entry holds None and no title is None.  So a probe that
\* returns None is a miss: a resolution goes on to fetch only when the cache
\* has no entry under its url.
C22_EntriesAreLinksUnderTheirUrl ==
    /\ [](\A k \in 1..Len(queue) :
            /\ queue[k].value # None
            /\ DOMAIN queue[k].value = {"url", "title"}
            /\ queue[k].value.url = queue[k].key
            /\ \E resp \in HttpResponses :
                  /\ Stores(resp)
                  /\ queue[k].value.title = CollapseWs(TitleOf(resp, queue[k].key)))
    /\ [][\A i \in Invocations : \A j \in 1..MaxTokens :
            (Starts(i, j) /\ fs'[i][j].state = "Fetching") =>
                ~Has(queue, Normalize(fs[i][j].url))]_vars

\* C22 witness: the cache holds the link of a page whose title element has
\* no text, under its url and with the url as title, and a resolution of
\* another url, probing the cache, got None and is fetching
C22_Witness ==
    /\ Len(queue) = 1
    /\ queue[1].key = "http://a.io"
    /\ queue[1].value = MkLink("http://a.io", "http://a.io")
    /\ \E i \in Invocations :
          /\ Len(fs[i]) = 1 /\ fs[i][1].url = "https://b.io/@bob(hi)"
          /\ fs[i][1].state = "Fetching"

(***************************************************************************)
(* Claims about the end of the wait.                                       *)
(***************************************************************************)
\* the wait of invocation i returns in this step
WaitEnds(i) == ppc[i] = "waiting" /\ ppc'[i] # "waiting"

\* C23: when the wait returns every launched resolution is in exactly one of
\* done and pending, every done one whose result is not None gives exactly
\* one link, every pending one is cancelled, and once parse_message has
\* returned no resolution it launched is both unfinished and uncancelled.
\* It does not hold where f.result() raises in the comprehension (C14): the
\* done results give no link and the pending futures are not cancelled.
C23_WaitPartitionsAndCancels ==
    /\ [][\A i \in Invocations :
            WaitEnds(i) =>
                /\ done'[i] \cup pending'[i] = 1..Len(fs[i])
                /\ done'[i] \cap pending'[i] = {}
                /\ \A j \in done'[i] :
                      fs[i][j].result # None =>
                          /\ Cardinality({k \in 1..Len(links'[i]) :
                                             linkTask'[i][k] = j}) = 1
                          /\ \E k \in 1..Len(links'[i]) :
                                linkTask'[i][k] = j /\ links'[i][k] = fs[i][j].result
                /\ Len(links'[i]) = Cardinality({j \in done'[i] : fs[i][j].result # None})
                /\ \A j \in pending'[i] : fs'[i][j].state = "Cancelled"]_vars
    /\ [](\A i \in Invocations :
            ppc[i] = "returned" =>
                \A j \in 1..Len(fs[i]) : fs[i][j].state \in {"Returned", "Cancelled"})

====
